---- MODULE Spec2Model ----
(***************************************************************************)
(* swarmchaser: the record store and the commands that move a release      *)
(* record through its lifecycle (search/ingest, refresh, download, upload, *)
(* set), and the torrent rewriter (TorrentMaker).                          *)
(*                                                                         *)
(* Every command is one action: it opens a session on the store, runs its  *)
(* loop over the selected records in the session, and commits at the end.  *)
(* An exception anywhere in the command ends the process before            *)
(* session.commit(), so nothing of the session reaches the store, while    *)
(* the calls already made to the collaborators (download client,           *)
(* destination tracker) have happened.                                     *)
(***************************************************************************)
EXTENDS Integers, Sequences, FiniteSets, TLC

VARIABLES
    db,         \* the persisted torrents table: db[id] is the row with primary key id
    now,        \* the clock read by int(datetime.now().timestamp())
    qbtSource,  \* rutracker ids whose source torrent is in the download client
    qbtTarget,  \* rutracker ids whose rewritten torrent is in the download client
    published,  \* published[rid]: torrents the destination tracker created for rid
    last,       \* what the last command did (its inputs, its collaborator calls)
    rw,         \* the torrent rewriter: its input document and its result
    gp          \* the genre parser: its input field and its result

vars == <<db, now, qbtSource, qbtTarget, published, last, rw, gp>>

-----------------------------------------------------------------------------
(* Bounds of the model *)

MaxRecords == 2     \* distinct source-tracker ids the search provider returns
MaxClock == 3       \* commands run (each reads a later clock value)
MaxResults == 2     \* length of one search result list
MaxDiscogs == 1     \* distinct metadata-provider release ids
MaxInfoLen == 3     \* keys of an input info dictionary
MaxTags == 3        \* tags of one genre field

RutrackerIds == 1..MaxRecords
DiscogsIds == 1..MaxDiscogs

-----------------------------------------------------------------------------
(* The record store *)

None == 0

TorrentStatus == {"tracked", "eligible", "downloaded", "uploaded", "ineligible"}

\* The value of each member of the enumeration.
StatusValue(s) ==
    CASE s = "tracked" -> 1
      [] s = "eligible" -> 2
      [] s = "downloaded" -> 3
      [] s = "uploaded" -> 4
      [] s = "ineligible" -> 10

NoRelease == [id |-> None]
\* Discogs.release(id): the full record of release id.
Release(d) == [id |-> d]

NoHash == [of |-> "none", rid |-> None]
\* infohash() of the torrent file behind a record's download_url.
SourceInfohash(rid) == [of |-> "source", rid |-> rid]
\* infohash() of the rewritten torrent file of a record.
TargetInfohash(rid) == [of |-> "target", rid |-> rid]

\* The row insert_torrents adds for a search result.
NewTorrent(rid, time) ==
    [rutracker_id |-> rid,
     discogs_release_id |-> None,
     discogs_release |-> NoRelease,
     source_infohash |-> SourceInfohash(rid),
     target_infohash |-> NoHash,
     last_updated |-> time,
     status |-> "tracked"]

Ids == DOMAIN db

\* session.query(Torrent).filter(Torrent.status == s): the ids, in row order.
RECURSIVE SelectFrom(_, _, _)
SelectFrom(rows, s, i) ==
    IF i > Len(rows) THEN <<>>
    ELSE IF rows[i].status = s THEN <<i>> \o SelectFrom(rows, s, i + 1)
    ELSE SelectFrom(rows, s, i + 1)

QueryByStatus(s) == SelectFrom(db, s, 1)

Range(f) == {f[i] : i \in DOMAIN f}

\* What a command leaves in last.
Did(op, arg, committed, ans, calls) ==
    [op |-> op, arg |-> arg, committed |-> committed, ans |-> ans,
     matched |-> calls.matched, dupchecked |-> calls.dupchecked,
     fetched |-> calls.fetched, handed |-> calls.handed,
     posted |-> calls.posted]

NoCalls == [matched |-> {}, dupchecked |-> {}, fetched |-> {}, handed |-> {},
            posted |-> {}]

Answer(kinds) == [kind : kinds, id : DiscogsIds]
Plain(kinds) == [kind : kinds, id : {None}]

-----------------------------------------------------------------------------
(* refresh: models.update_eligibility *)

RefreshKinds == {"search_raises", "no_match", "release_raises",
                 "exists_raises", "duplicate", "fresh"}

\* Mutant: a row whose release is already on the destination tracker keeps
\* neither the matched id nor the matched record, and a fresh one keeps its
\* old timestamp.
RefreshOneForgets(t, a, time) ==
    IF a.kind = "search_raises"
    THEN [t |-> t, raised |-> TRUE, dup |-> FALSE]
    ELSE IF a.kind = "no_match"
    THEN [t |-> [t EXCEPT !.status = "ineligible"], raised |-> FALSE, dup |-> FALSE]
    ELSE IF a.kind = "release_raises"
    THEN [t |-> t, raised |-> TRUE, dup |-> FALSE]
    ELSE IF a.kind = "exists_raises"
    THEN [t |-> t, raised |-> TRUE, dup |-> TRUE]
    ELSE IF a.kind = "duplicate"
    THEN [t |-> [t EXCEPT !.status = "ineligible"], raised |-> FALSE, dup |-> TRUE]
    ELSE [t |-> [t EXCEPT !.status = "eligible",
                          !.discogs_release_id = a.id,
                          !.discogs_release = Release(a.id)],
          raised |-> FALSE, dup |-> TRUE]

\* The loop body for one tracked row t under the collaborators' answer a.
RefreshOne(t, a, time) ==
    IF a.kind = "search_raises"
    THEN [t |-> t, raised |-> TRUE, dup |-> FALSE]
    ELSE IF a.kind = "no_match"
    THEN [t |-> [t EXCEPT !.status = "ineligible"], raised |-> FALSE, dup |-> FALSE]
    ELSE LET t1 == [t EXCEPT !.discogs_release_id = a.id] IN
         IF a.kind = "release_raises"
         THEN [t |-> t1, raised |-> TRUE, dup |-> FALSE]
         ELSE LET t2 == [t1 EXCEPT !.discogs_release = Release(a.id)] IN
              IF a.kind = "exists_raises"
              THEN [t |-> t2, raised |-> TRUE, dup |-> TRUE]
              ELSE IF a.kind = "duplicate"
              THEN [t |-> [t2 EXCEPT !.status = "ineligible"],
                    raised |-> FALSE, dup |-> TRUE]
              ELSE [t |-> [t2 EXCEPT !.status = "eligible",
                                     !.last_updated = time],
                    raised |-> FALSE, dup |-> TRUE]

\* The for loop of update_eligibility over the ids selected, in the session
\* sess: its runs, one for each way the collaborators can answer.  A run ends
\* at the first exception; ans holds the answers it was given.
RECURSIVE RefreshLoop(_, _, _)
RefreshLoop(ids, sess, time) ==
    IF ids = <<>>
    THEN {[sess |-> sess, raised |-> FALSE, ans |-> <<>>, calls |-> NoCalls]}
    ELSE LET i == Head(ids) IN
         UNION {LET r == RefreshOne(sess[i], a, time)
                    s1 == [sess EXCEPT ![i] = r.t]
                    dup == IF r.dup THEN {i} ELSE {}
                IN  IF r.raised
                    THEN {[sess |-> s1, raised |-> TRUE, ans |-> (i :> a),
                           calls |-> [NoCalls EXCEPT !.matched = {i},
                                                     !.dupchecked = dup]]}
                    ELSE {[rest EXCEPT !.ans = (i :> a) @@ @,
                                       !.calls.matched = @ \cup {i},
                                       !.calls.dupchecked = @ \cup dup] :
                             rest \in RefreshLoop(Tail(ids), s1, time)} :
                a \in Answer(RefreshKinds)}

\* Mutant: the status filter of the query is missing.
RefreshSelectionAll == [i \in 1..Len(db) |-> i]

\* The rows the command selects.
RefreshSelection == QueryByStatus("tracked")

Refresh ==
    /\ now < MaxClock
    /\ now' = now + 1
    /\ \E r \in RefreshLoop(RefreshSelection, db, now') :
          /\ db' = IF r.raised THEN db ELSE r.sess
          /\ last' = Did("refresh", None, ~r.raised, r.ans, r.calls)
    /\ UNCHANGED <<qbtSource, qbtTarget, published, rw, gp>>

-----------------------------------------------------------------------------
(* search: cli.search and models.insert_torrents *)

\* Mutant: the query does not flush the session first, so it sees only the
\* rows the store held when the command began.
FindByRutrackerIdNoFlush(rows, rid) ==
    \E i \in DOMAIN db : db[i].rutracker_id = rid

\* session.query(Torrent).filter(Torrent.rutracker_id == rid).first()
FindByRutrackerId(rows, rid) == \E i \in DOMAIN rows : rows[i].rutracker_id = rid

\* The for loop of insert_torrents from result pos on; fails holds the positions
\* whose retrieve_infohash() raises.  The query of each iteration flushes the
\* rows the session added before it.
RECURSIVE InsertLoop(_, _, _, _, _)
InsertLoop(results, pos, sess, fails, time) ==
    IF pos > Len(results)
    THEN [sess |-> sess, raised |-> FALSE]
    ELSE IF FindByRutrackerId(sess, results[pos])
    THEN InsertLoop(results, pos + 1, sess, fails, time)
    ELSE IF pos \in fails
    THEN [sess |-> sess, raised |-> TRUE]
    ELSE InsertLoop(results, pos + 1,
                    Append(sess, NewTorrent(results[pos], time)), fails, time)

\* The result lists of jackett.search.  The code only compares source-tracker
\* ids for equality, so the ids are named in the order the store first sees
\* them: a result is an id the store holds, or the next id it does not hold
\* (which a list may hold more than once).
SearchResults ==
    LET known == {db[i].rutracker_id : i \in DOMAIN db}
        fresh(results, n) ==
            {results[m] : m \in 1..(n - 1)} \cup known
    IN  {results \in UNION {[1..n -> RutrackerIds] : n \in 0..MaxResults} :
            \A n \in DOMAIN results :
                \A rid \in RutrackerIds :
                    (rid < results[n]) => rid \in fresh(results, n)}

Search ==
    /\ now < MaxClock
    /\ now' = now + 1
    /\ \E results \in SearchResults, failAt \in 0..MaxResults :
          LET r == InsertLoop(results, 1, db, {failAt}, now') IN
          /\ r.raised <=> failAt # 0
          /\ db' = IF r.raised THEN db ELSE r.sess
          /\ last' = Did("search", results, ~r.raised, <<>>, NoCalls)
    /\ UNCHANGED <<qbtSource, qbtTarget, published, rw, gp>>

-----------------------------------------------------------------------------
(* download: cli.download and qBittorrent.download *)

DownloadKinds == {"get_raises", "bytes_added", "bytes_add_raises",
                  "empty_accepted", "empty_add_raises"}

\* qBittorrent.retrieve_torrents: the source infohashes of the selected rows
\* that the client holds.
RetrieveTorrents(ids, client) ==
    {db[i].source_infohash : i \in Range(ids)}
        \cap {SourceInfohash(rid) : rid \in client}

\* The for loop of qBittorrent.download: its runs, one for each way the
\* download locator and the client can answer.  A run gives the rows sent to
\* the client (successful), or raises.
RECURSIVE DownloadLoop(_, _, _)
DownloadLoop(ids, existing, client) ==
    IF ids = <<>>
    THEN {[successful |-> {}, raised |-> FALSE, ans |-> <<>>,
           client |-> client, calls |-> NoCalls]}
    ELSE LET i == Head(ids) IN
         IF db[i].source_infohash \in existing
         THEN DownloadLoop(Tail(ids), existing, client)
         ELSE UNION {
                 IF a.kind = "get_raises"
                 THEN {[successful |-> {}, raised |-> TRUE, ans |-> (i :> a),
                        client |-> client, calls |-> NoCalls]}
                 ELSE IF a.kind \in {"bytes_add_raises", "empty_add_raises"}
                 THEN {[successful |-> {}, raised |-> TRUE, ans |-> (i :> a),
                        client |-> client,
                        calls |-> [NoCalls EXCEPT !.fetched = {i},
                                                  !.handed = {i}]]}
                 ELSE LET c1 == IF a.kind = "bytes_added"
                                THEN client \cup {db[i].rutracker_id}
                                ELSE client
                      IN  {[rest EXCEPT !.successful = @ \cup {i},
                                        !.ans = (i :> a) @@ @,
                                        !.calls.fetched = @ \cup {i},
                                        !.calls.handed = @ \cup {i}] :
                              rest \in DownloadLoop(Tail(ids), existing, c1)} :
                 a \in Plain(DownloadKinds)}

\* Mutant: the status filter of the query is missing.
DownloadSelectionAll == [i \in 1..Len(db) |-> i]

\* The rows the command selects.
DownloadSelection == QueryByStatus("eligible")

\* The loop of cli.download over the rows qBittorrent.download returned.
MarkDownloaded(rows, successful, time) ==
    [i \in DOMAIN rows |->
        IF i \in successful
        THEN [rows[i] EXCEPT !.last_updated = time, !.status = "downloaded"]
        ELSE rows[i]]

Download ==
    /\ now < MaxClock
    /\ now' = now + 1
    /\ LET ids == DownloadSelection IN
       \/ \* the client cannot be reached (auth_log_in, torrents_info)
          /\ UNCHANGED <<db, qbtSource>>
          /\ last' = Did("download", None, FALSE, <<>>, NoCalls)
       \/ \E r \in DownloadLoop(ids, RetrieveTorrents(ids, qbtSource), qbtSource) :
             /\ qbtSource' = r.client
             /\ db' = IF r.raised THEN db
                      ELSE MarkDownloaded(db, r.successful, now')
             /\ last' = Did("download", None, ~r.raised, r.ans, r.calls)
    /\ UNCHANGED <<qbtTarget, published, rw, gp>>

-----------------------------------------------------------------------------
(* upload: cli.upload, Redacted.upload *)

UploadKinds == {"upload_raises", "failure", "success", "success_edit_raises",
                "success_add_raises", "success_delete_raises"}

Succeeded(a) == a.kind \in {"success", "success_edit_raises",
                            "success_add_raises", "success_delete_raises"}

\* Mutant: the failure of the re-download after a successful upload is
\* swallowed, and the row is committed without its target infohash.
UploadOneSwallows(t, a, time) ==
    IF t.discogs_release = NoRelease
    THEN [t |-> t, raised |-> TRUE, asked |-> FALSE, posted |-> FALSE,
          added |-> FALSE, deleted |-> FALSE]
    ELSE IF ~Succeeded(a)
    THEN [t |-> t, raised |-> TRUE, asked |-> TRUE, posted |-> FALSE,
          added |-> FALSE, deleted |-> FALSE]
    ELSE LET t1 == [t EXCEPT !.status = "uploaded", !.last_updated = time] IN
         IF a.kind = "success_edit_raises"
         THEN [t |-> t1, raised |-> FALSE, asked |-> TRUE, posted |-> TRUE,
               added |-> FALSE, deleted |-> FALSE]
         ELSE [t |-> [t1 EXCEPT !.target_infohash =
                                    TargetInfohash(t.rutracker_id)],
               raised |-> a.kind # "success", asked |-> TRUE,
               posted |-> TRUE,
               added |-> a.kind # "success_add_raises",
               deleted |-> a.kind = "success"]

\* The loop body of cli.upload for one row t.
UploadOne(t, a, time) ==
    IF t.discogs_release = NoRelease
    THEN \* setup_params(None) raises before any request is made
         [t |-> t, raised |-> TRUE, asked |-> FALSE, posted |-> FALSE,
          added |-> FALSE, deleted |-> FALSE]
    ELSE IF a.kind = "upload_raises"
    THEN [t |-> t, raised |-> TRUE, asked |-> TRUE, posted |-> FALSE,
          added |-> FALSE, deleted |-> FALSE]
    ELSE IF ~Succeeded(a)
    THEN \* the else branch evaluates response.json() on a dict and raises
         [t |-> t, raised |-> TRUE, asked |-> TRUE, posted |-> FALSE,
          added |-> FALSE, deleted |-> FALSE]
    ELSE LET t1 == [t EXCEPT !.status = "uploaded", !.last_updated = time] IN
         IF a.kind = "success_edit_raises"
         THEN [t |-> t1, raised |-> TRUE, asked |-> TRUE, posted |-> TRUE,
               added |-> FALSE, deleted |-> FALSE]
         ELSE LET t2 == [t1 EXCEPT !.target_infohash =
                                        TargetInfohash(t.rutracker_id)]
              IN  [t |-> t2, raised |-> a.kind # "success", asked |-> TRUE,
                   posted |-> TRUE,
                   added |-> a.kind # "success_add_raises",
                   deleted |-> a.kind = "success"]

\* The for loop of cli.upload over the ids selected, in the session sess: its
\* runs, one for each way the tracker, the download locator and the client
\* can answer.
RECURSIVE UploadLoop(_, _, _)
UploadLoop(ids, sess, time) ==
    IF ids = <<>>
    THEN {[sess |-> sess, raised |-> FALSE, ans |-> <<>>, posted |-> {},
           added |-> {}, deleted |-> {}]}
    ELSE LET i == Head(ids)
             rid == sess[i].rutracker_id
         IN  UNION {LET r == UploadOne(sess[i], a, time)
                        s1 == [sess EXCEPT ![i] = r.t]
                        mine == [sess |-> s1, raised |-> r.raised,
                                 ans |-> IF r.asked THEN (i :> a) ELSE <<>>,
                                 posted |-> IF r.posted THEN {i} ELSE {},
                                 added |-> IF r.added THEN {rid} ELSE {},
                                 deleted |-> IF r.deleted THEN {rid} ELSE {}]
                    IN  IF r.raised
                        THEN {mine}
                        ELSE {[rest EXCEPT !.ans = mine.ans @@ @,
                                           !.posted = @ \cup mine.posted,
                                           !.added = @ \cup mine.added,
                                           !.deleted = @ \cup mine.deleted] :
                                 rest \in UploadLoop(Tail(ids), s1, time)} :
                    a \in Plain(UploadKinds)}

\* The rows the command selects: the row of --id, else the downloaded rows.
UploadSelection(id) ==
    IF id # None THEN <<id>> ELSE QueryByStatus("downloaded")

Upload ==
    /\ now < MaxClock
    /\ now' = now + 1
    /\ \E id \in {None} \cup (1..(Len(db) + 1)) :
          IF id # None /\ id \notin Ids
          THEN /\ UNCHANGED <<db, qbtSource, qbtTarget, published>>
               /\ last' = Did("upload", id, FALSE, <<>>, NoCalls)
          ELSE \E r \in UploadLoop(UploadSelection(id), db, now') :
                  /\ db' = IF r.raised THEN db ELSE r.sess
                  /\ published' =
                        [rid \in RutrackerIds |->
                            published[rid] +
                            Cardinality({i \in r.posted :
                                            db[i].rutracker_id = rid})]
                  /\ qbtTarget' = qbtTarget \cup r.added
                  /\ qbtSource' = qbtSource \ r.deleted
                  /\ last' = Did("upload", id, ~r.raised, r.ans,
                                 [NoCalls EXCEPT !.posted = r.posted])
    /\ UNCHANGED <<rw, gp>>

-----------------------------------------------------------------------------
(* set: cli.set, the manual attachment of a metadata record *)

SetDiscogs ==
    /\ now < MaxClock
    /\ now' = now + 1
    /\ \E id \in 1..(Len(db) + 1), discog \in DiscogsIds, raises \in BOOLEAN :
          /\ db' = IF id \notin Ids \/ raises THEN db
                   ELSE [db EXCEPT ![id].discogs_release_id = discog,
                                   ![id].discogs_release = Release(discog)]
          /\ last' = Did("set", id, id \in Ids /\ ~raises,
                         <<>>, NoCalls)
    /\ UNCHANGED <<qbtSource, qbtTarget, published, rw, gp>>

-----------------------------------------------------------------------------
(* The torrent rewriter: TorrentMaker *)

\* Bencode values as pyben.bendecode returns them.  A dictionary is a Python
\* dict: its items in insertion order, which for a decoded document is the
\* order of the keys on the wire.
BInt(n) == [int |-> n]
BStr(s) == [str |-> s]
BList(items) == [list |-> items]
BDict(items) == [dict |-> items]

IsDict(v) == DOMAIN v = {"dict"}
IsList(v) == DOMAIN v = {"list"}

Keys(d) == [i \in DOMAIN d.dict |-> d.dict[i][1]]
HasKey(d, k) == \E i \in DOMAIN d.dict : d.dict[i][1] = k
\* d[k]
Get(d, k) == d.dict[CHOOSE i \in DOMAIN d.dict : d.dict[i][1] = k][2]
\* d[k] = v: an existing key keeps its place, a new key goes last.
Put(d, k, v) ==
    IF HasKey(d, k)
    THEN BDict([i \in DOMAIN d.dict |->
                  IF d.dict[i][1] = k THEN <<k, v>> ELSE d.dict[i]])
    ELSE BDict(Append(d.dict, <<k, v>>))

\* The keys of the documents of the model, in ascending byte-wise order: the
\* order sorted() gives str keys.
KeyOrder == <<"announce", "comment", "creation date", "files", "info",
              "length", "name", "path", "piece length", "pieces", "private",
              "source">>
KeyRank(k) == CHOOSE i \in DOMAIN KeyOrder : KeyOrder[i] = k

\* sorted(keys)
RECURSIVE InsertSorted(_, _)
InsertSorted(k, ks) ==
    IF ks = <<>> THEN <<k>>
    ELSE IF KeyRank(k) <= KeyRank(Head(ks)) THEN <<k>> \o ks
    ELSE <<Head(ks)>> \o InsertSorted(k, Tail(ks))

RECURSIVE Sorted(_)
Sorted(ks) == IF ks = <<>> THEN <<>> ELSE InsertSorted(Head(ks), Sorted(Tail(ks)))

\* The parameters cli.upload gives TorrentMaker (Redacted.edit_torrent).
Announce == BStr("http://new")
SourceTag == BStr("RED")

\* len(response.content) == 0.  A response is the empty byte string <<>> or
\* <<doc>>, the bytes of the bencoded document doc.
IsEmpty(content) == content = <<>>
\* pyben.bendecode(bytestring)[0]
Bendecode(bytestring) == bytestring[1]

\* The top-level keys setup_torrent sets before "info".
SetupHeader(time) ==
    Put(Put(BDict(<<>>), "announce", Announce), "creation date", BInt(time))

\* The copy of the info dictionary with private and source set.
SetupInfo(torrent, private) ==
    Put(Put(Get(torrent, "info"), "private", BInt(IF private THEN 1 ELSE 0)),
        "source", SourceTag)

\* ordered_info: the items of info, by sorted key.
OrderInfo(info) ==
    LET ks == Sorted(Keys(info))
    IN  BDict([i \in DOMAIN ks |-> <<ks[i], Get(info, ks[i])>>])

\* Mutant: info is the input's own dictionary, not a copy of it.
DecodedAfterNoCopy(torrent, private) ==
    Put(torrent, "info", SetupInfo(torrent, private))

\* The decoded document once setup_torrent has run: info was copied, so the
\* assignments went to the copy.
DecodedAfter(torrent, private) == torrent

\* Mutant: the new document starts from the decoded one and keeps its keys.
SetupTorrentKeepsTop(bytestring, private, time) ==
    LET torrent == Bendecode(bytestring) IN
    IF ~HasKey(torrent, "info")
    THEN [raised |-> "KeyError", torrent |-> torrent, out |-> BDict(<<>>)]
    ELSE [raised |-> "no",
          torrent |-> torrent,
          out |-> Put(Put(Put(torrent, "announce", Announce),
                          "creation date", BInt(time)),
                      "info", OrderInfo(SetupInfo(torrent, private)))]

\* TorrentMaker.setup_torrent: the value handed to pyben.benencode, and the
\* decoded input as the call leaves it.
SetupTorrent(bytestring, private, time) ==
    LET torrent == Bendecode(bytestring) IN
    IF ~HasKey(torrent, "info")
    THEN [raised |-> "KeyError", torrent |-> torrent, out |-> BDict(<<>>)]
    ELSE [raised |-> "no",
          torrent |-> DecodedAfter(torrent, private),
          out |-> Put(SetupHeader(time), "info",
                      OrderInfo(SetupInfo(torrent, private)))]

\* TorrentMaker.create: retrieve_torrent, then edit_torrent.
Create(content, private, time) ==
    IF IsEmpty(content)
    THEN [raised |-> "JackettException", torrent |-> BDict(<<>>),
          out |-> BDict(<<>>)]
    ELSE SetupTorrent(content, private, time)

(* The documents the rewriter is run on *)

TopKeys == {"announce", "comment", "info"}
InfoKeys == {"name", "piece length", "pieces", "length", "files", "private",
             "source"}

\* The sequences of distinct members of S, up to length n.
Orders(S, n) ==
    {ks \in UNION {[1..m -> S] : m \in 0..n} :
        \A i, j \in DOMAIN ks : ks[i] = ks[j] => i = j}

InfoValue(k, variant) ==
    CASE k = "name" -> BStr("x")
      [] k = "piece length" -> BInt(16384)
      [] k = "pieces" -> BStr("<20 bytes>")
      [] k = "length" -> BInt(100)
      [] k = "private" -> BInt(variant)
      [] k = "source" -> BStr("OLD")
      [] k = "files" ->
            IF variant = 0
            THEN BList(<<BDict(<<<<"length", BInt(100)>>,
                               <<"path", BList(<<BStr("a")>>)>>>>)>>)
            ELSE BList(<<BDict(<<<<"path", BList(<<BStr("a")>>)>>,
                               <<"length", BInt(100)>>>>)>>)

InfoDicts ==
    {BDict([i \in DOMAIN ks |-> <<ks[i], InfoValue(ks[i], variant)>>]) :
        ks \in Orders(InfoKeys, MaxInfoLen), variant \in {0, 1}}

TopValue(k, info) ==
    CASE k = "announce" -> BStr("http://old")
      [] k = "comment" -> BStr("from the source tracker")
      [] k = "info" -> info

Documents ==
    {BDict([i \in DOMAIN ks |-> <<ks[i], TopValue(ks[i], info)>>]) :
        ks \in Orders(TopKeys, Cardinality(TopKeys)), info \in InfoDicts}

Contents == {<<>>} \cup {<<doc>> : doc \in Documents}

Idle(content, private) ==
    [pc |-> "idle", content |-> content, private |-> private,
     result |-> [raised |-> "no", torrent |-> BDict(<<>>), out |-> BDict(<<>>)]]

Rewrite ==
    /\ rw.pc = "idle"
    /\ now < MaxClock
    /\ now' = now + 1
    /\ rw' = [rw EXCEPT !.pc = "done",
                        !.result = Create(rw.content, rw.private, now')]
    /\ UNCHANGED <<db, qbtSource, qbtTarget, published, last, gp>>

-----------------------------------------------------------------------------
(* The genre parser: utils.parse_genres, utils.format_genre *)

\* A Python str is the sequence of its characters.
UpperCase == <<"A", "B", "C", "D", "E", "F", "G", "H", "I", "J", "K", "L", "M",
               "N", "O", "P", "Q", "R", "S", "T", "U", "V", "W", "X", "Y", "Z">>
LowerCase == <<"a", "b", "c", "d", "e", "f", "g", "h", "i", "j", "k", "l", "m",
               "n", "o", "p", "q", "r", "s", "t", "u", "v", "w", "x", "y", "z">>

\* "Folk, World, & Country"
FolkWorldCountry ==
    <<"F", "o", "l", "k", ",", " ", "W", "o", "r", "l", "d", ",", " ",
      "&", " ", "C", "o", "u", "n", "t", "r", "y">>

\* potential_separators
PotentialSeparators == <<"|", ",", "/">>

\* c in s
Contains(s, c) == \E i \in DOMAIN s : s[i] = c

\* The separators the field holds, as positions in potential_separators.
Present(genres) ==
    {k \in DOMAIN PotentialSeparators : Contains(genres, PotentialSeparators[k])}

\* The for/else of parse_genres, where a separator is present: the first one.
Separator(genres) ==
    PotentialSeparators[CHOOSE k \in Present(genres) :
                           \A m \in Present(genres) : k <= m]

\* s.split(sep)
RECURSIVE Split(_, _)
Split(s, sep) ==
    IF ~Contains(s, sep) THEN <<s>>
    ELSE LET i == CHOOSE i \in DOMAIN s :
                     s[i] = sep /\ \A j \in 1..(i - 1) : s[j] # sep
         IN  <<SubSeq(s, 1, i - 1)>> \o Split(SubSeq(s, i + 1, Len(s)), sep)

\* s.strip()
RECURSIVE Strip(_)
Strip(s) ==
    IF s = <<>> THEN s
    ELSE IF Head(s) = " " THEN Strip(Tail(s))
    ELSE IF s[Len(s)] = " " THEN Strip(SubSeq(s, 1, Len(s) - 1))
    ELSE s

\* s.lower()
Lower(s) ==
    [i \in DOMAIN s |->
        IF \E k \in DOMAIN UpperCase : UpperCase[k] = s[i]
        THEN LowerCase[CHOOSE k \in DOMAIN UpperCase : UpperCase[k] = s[i]]
        ELSE s[i]]

\* s.replace(".", "")
RECURSIVE DropPeriods(_)
DropPeriods(s) ==
    IF s = <<>> THEN s
    ELSE IF Head(s) = "." THEN DropPeriods(Tail(s))
    ELSE <<Head(s)>> \o DropPeriods(Tail(s))

\* s.replace(" ", ".")
SpacesToPeriods(s) == [i \in DOMAIN s |-> IF s[i] = " " THEN "." ELSE s[i]]

\* utils.format_genre
FormatGenre(genre) ==
    IF genre = FolkWorldCountry THEN <<>>
    ELSE SpacesToPeriods(DropPeriods(Lower(Strip(genre))))

\* utils.parse_genres
ParseGenres(genres) ==
    LET parts == IF Present(genres) # {}
                 THEN Split(genres, Separator(genres))
                 ELSE <<genres>>
    IN  [i \in DOMAIN parts |-> FormatGenre(parts[i])]

(* The genre fields the parser is run on *)

\* The pieces of a genre field between its separators.
Pieces == {<<"F", "o", "l", "k">>,
           <<" ", "W", "o", "r", "l", "d">>,
           <<" ", "&", " ", "C", "o", "u", "n", "t", "r", "y">>,
           <<"H", "i", "p", " ", "H", "o", "p">>,
           <<"R", ".", "B">>}

\* The pieces ps joined by the separators seps.
RECURSIVE Join(_, _)
Join(ps, seps) ==
    IF Len(ps) = 1 THEN ps[1]
    ELSE ps[1] \o <<seps[1]>> \o Join(Tail(ps), Tail(seps))

GenreFields ==
    UNION {{Join(ps, seps) : ps \in [1..n -> Pieces],
                             seps \in [1..(n - 1) -> Range(PotentialSeparators)]} :
           n \in 1..MaxTags}

GenreIdle(field) == [pc |-> "idle", field |-> field, result |-> <<>>]

ParseGenreField ==
    /\ gp.pc = "idle"
    /\ gp' = [gp EXCEPT !.pc = "done", !.result = ParseGenres(gp.field)]
    /\ UNCHANGED <<db, now, qbtSource, qbtTarget, published, last, rw>>

-----------------------------------------------------------------------------

Init ==
    /\ db = <<>>
    /\ now = 0
    /\ qbtSource = {}
    /\ qbtTarget = {}
    /\ published = [r \in RutrackerIds |-> 0]
    /\ last = Did("init", None, TRUE, <<>>, NoCalls)
    /\ rw = Idle(<<>>, TRUE)
    /\ gp = GenreIdle(<<>>)

Next == Search \/ Refresh \/ Download \/ Upload \/ SetDiscogs

Spec == Init /\ [][Next]_vars

\* The rewriter alone, run once on each document.
InitRewrite ==
    /\ db = <<>>
    /\ now = 0
    /\ qbtSource = {}
    /\ qbtTarget = {}
    /\ published = [r \in RutrackerIds |-> 0]
    /\ last = Did("init", None, TRUE, <<>>, NoCalls)
    /\ \E content \in Contents, private \in BOOLEAN :
          rw = Idle(content, private)
    /\ gp = GenreIdle(<<>>)

NextRewrite == Rewrite

SpecRewrite == InitRewrite /\ [][NextRewrite]_vars

\* The stores a search that found every id and a refresh that finished leave
\* behind: each record is eligible or ineligible as the collaborators answered.
Refreshed ==
    LET results == [n \in 1..MaxRecords |-> n]
        rows == InsertLoop(results, 1, <<>>, {}, 0).sess
    IN  {r \in RefreshLoop(SelectFrom(rows, "tracked", 1), rows, 0) : ~r.raised}

\* Reruns of download, from the state after search and refresh.
InitDownloads ==
    /\ now = 0
    /\ qbtSource = {}
    /\ qbtTarget = {}
    /\ published = [r \in RutrackerIds |-> 0]
    /\ rw = Idle(<<>>, TRUE)
    /\ gp = GenreIdle(<<>>)
    /\ \E r \in Refreshed :
          /\ db = r.sess
          /\ last = Did("refresh", None, TRUE, r.ans, r.calls)

NextDownloads == Download

SpecDownloads == InitDownloads /\ [][NextDownloads]_vars

\* Reruns of upload, from the state after search, refresh and a download that
\* sent every eligible record to the client.
InitUploads ==
    /\ now = 0
    /\ qbtTarget = {}
    /\ published = [r \in RutrackerIds |-> 0]
    /\ rw = Idle(<<>>, TRUE)
    /\ gp = GenreIdle(<<>>)
    /\ \E r \in Refreshed :
          LET successful == Range(SelectFrom(r.sess, "eligible", 1)) IN
          /\ db = MarkDownloaded(r.sess, successful, 0)
          /\ qbtSource = {r.sess[i].rutracker_id : i \in successful}
          /\ last = Did("download", None, TRUE,
                        [i \in successful |->
                            [kind |-> "bytes_added", id |-> None]],
                        [NoCalls EXCEPT !.fetched = successful,
                                        !.handed = successful])

NextUploads == Upload

SpecUploads == InitUploads /\ [][NextUploads]_vars

\* The genre parser alone, run once on each genre field.
InitGenres ==
    /\ db = <<>>
    /\ now = 0
    /\ qbtSource = {}
    /\ qbtTarget = {}
    /\ published = [r \in RutrackerIds |-> 0]
    /\ last = Did("init", None, TRUE, <<>>, NoCalls)
    /\ rw = Idle(<<>>, TRUE)
    /\ \E field \in GenreFields : gp = GenreIdle(field)

NextGenres == ParseGenreField

SpecGenres == InitGenres /\ [][NextGenres]_vars

-----------------------------------------------------------------------------
(* The claims *)

Changed(i) == db'[i].status # db[i].status

Edges == {<<"tracked", "eligible">>, <<"tracked", "ineligible">>,
          <<"eligible", "downloaded">>, <<"downloaded", "uploaded">>}

\* C1: every status change of every record, under every command that writes
\* status (refresh, download, upload with or without --id, set), follows one
\* of the edges tracked -> eligible, tracked -> ineligible,
\* eligible -> downloaded, downloaded -> uploaded; so ineligible and uploaded
\* are terminal and uploaded is reached from downloaded only.
C1_OnlyLifecycleEdges ==
    [][\A i \in DOMAIN db :
          Changed(i) => <<db[i].status, db'[i].status>> \in Edges]_vars

C3_EligibilityTable ==
    [][(last'.op = "refresh" /\ last'.committed) =>
          \A i \in DOMAIN db :
             db[i].status = "tracked" =>
                LET a == last'.ans[i] IN
                /\ a.kind \in {"no_match", "duplicate", "fresh"}
                /\ i \in last'.matched
                /\ a.kind = "no_match" =>
                      /\ db'[i] = [db[i] EXCEPT !.status = "ineligible"]
                      /\ i \notin last'.dupchecked
                /\ a.kind = "duplicate" =>
                      /\ db'[i] = [db[i] EXCEPT
                                      !.status = "ineligible",
                                      !.discogs_release_id = a.id,
                                      !.discogs_release = Release(a.id)]
                      /\ i \in last'.dupchecked
                /\ a.kind = "fresh" =>
                      /\ db'[i] = [db[i] EXCEPT
                                      !.status = "eligible",
                                      !.discogs_release_id = a.id,
                                      !.discogs_release = Release(a.id),
                                      !.last_updated = now']
                      /\ db'[i].last_updated # db[i].last_updated
                      /\ i \in last'.dupchecked]_vars

\* C3 witness: one refresh found a duplicate for one record and none for
\* another.
C3_Witness ==
    /\ last.op = "refresh"
    /\ last.committed
    /\ \E i, j \in DOMAIN last.ans :
          /\ last.ans[i].kind = "duplicate"
          /\ db[i].status = "ineligible"
          /\ db[i].discogs_release # NoRelease
          /\ last.ans[j].kind = "fresh"
          /\ db[j].status = "eligible"

\* C4: refresh issues no matcher call and no duplicate check for, and changes
\* no field of, a record that is not tracked; download issues no download
\* for, hands nothing to the client for, and changes no field of, a record
\* that is not eligible.
C4_RerunIsIdempotent ==
    [][/\ last'.op = "refresh" =>
             \A i \in DOMAIN db :
                db[i].status # "tracked" =>
                   /\ i \notin last'.matched \cup last'.dupchecked
                   /\ db'[i] = db[i]
       /\ last'.op = "download" =>
             \A i \in DOMAIN db :
                db[i].status # "eligible" =>
                   /\ i \notin last'.fetched \cup last'.handed
                   /\ db'[i] = db[i]]_vars

\* C4 witness: refresh ran over a store holding a record that an earlier
\* refresh made eligible, and asked nothing about it.
C4_Witness ==
    /\ last.op = "refresh"
    /\ last.committed
    /\ \E i \in DOMAIN db :
          /\ db[i].status = "eligible"
          /\ db[i].last_updated < now
          /\ i \notin last.matched

Raising == {"search_raises", "release_raises", "exists_raises", "get_raises",
            "bytes_add_raises", "empty_add_raises", "upload_raises", "failure"}

\* C5: in refresh, download and upload, when processing one record fails (a
\* collaborator raises, or the tracker reports an upload failure) that record
\* is left unchanged, every other record of the batch is still processed, and
\* the transitions of the other records are persisted.
C5_FailureDoesNotAbortBatch ==
    [][/\ last'.op = "refresh" =>
             \A i \in DOMAIN db :
                db[i].status = "tracked" =>
                   /\ i \in DOMAIN last'.ans
                   /\ last'.ans[i].kind \in Raising => db'[i] = db[i]
                   /\ last'.ans[i].kind \notin Raising => Changed(i)
       /\ last'.op = "download" =>
             \A i \in DOMAIN db :
                (db[i].status = "eligible" /\ db[i].rutracker_id \notin qbtSource) =>
                   /\ i \in DOMAIN last'.ans
                   /\ last'.ans[i].kind \in Raising => db'[i] = db[i]
                   /\ last'.ans[i].kind \notin Raising => Changed(i)
       /\ (last'.op = "upload" /\ last'.arg = None) =>
             \A i \in DOMAIN db :
                (db[i].status = "downloaded" /\ db[i].discogs_release # NoRelease) =>
                   /\ i \in DOMAIN last'.ans
                   /\ last'.ans[i].kind \in Raising => db'[i] = db[i]
                   /\ last'.ans[i].kind \notin Raising => Changed(i)]_vars

\* C6: in every persisted state a record is uploaded exactly if its target
\* infohash is set; a step that makes a record uploaded sets its target
\* infohash and its timestamp in the same commit; and only upload changes a
\* target infohash.
C6_UploadedIffTargetInfohash ==
    [][/\ \A i \in DOMAIN db' :
             db'[i].status = "uploaded" <=> db'[i].target_infohash # NoHash
       /\ \A i \in DOMAIN db :
             /\ (Changed(i) /\ db'[i].status = "uploaded") =>
                   /\ db'[i].target_infohash = TargetInfohash(db[i].rutracker_id)
                   /\ db'[i].last_updated = now'
                   /\ last'.op = "upload"
                   /\ i \in last'.posted
             /\ db'[i].target_infohash # db[i].target_infohash =>
                   /\ last'.op = "upload"
                   /\ db'[i].status = "uploaded"]_vars

\* C6 witness: an upload committed a record as uploaded, with its target
\* infohash, after the tracker reported success.
C6_Witness ==
    /\ last.op = "upload"
    /\ last.committed
    /\ \E i \in last.posted :
          /\ db[i].status = "uploaded"
          /\ db[i].target_infohash = TargetInfohash(db[i].rutracker_id)
          /\ db[i].last_updated = now

\* C7: a download locator that returns zero bytes is a failure: in download
\* the record's content is not handed to the client and the record stays
\* eligible; in the rewriter zero bytes raise an error.
C7_EmptyResponseIsFailure ==
    /\ last.op = "download" =>
          \A i \in DOMAIN last.ans :
             last.ans[i].kind \in {"empty_accepted", "empty_add_raises"} =>
                /\ i \notin last.handed
                /\ db[i].status = "eligible"
    /\ (rw.pc = "done" /\ IsEmpty(rw.content)) =>
          rw.result.raised = "JackettException"

Rewritten == rw.pc = "done" /\ rw.result.raised = "no"

KeySet(d) == Range(Keys(d))

\* C8 as stated: the rewritten document of an input with an info dictionary
\* has exactly the top-level keys announce and info.
C8_OnlyAnnounceAndInfo ==
    Rewritten => KeySet(rw.result.out) = {"announce", "info"}

\* C8 as amended: the rewritten document of an input with an info dictionary
\* has exactly the top-level keys announce (the destination announce URL),
\* creation date (the clock at the rewrite) and info (the rewritten info
\* dictionary), each once; no top-level key of the input is kept.
C8_AnnounceCreationDateAndInfo ==
    (rw.pc = "done" /\ ~IsEmpty(rw.content)
        /\ HasKey(Bendecode(rw.content), "info")) =>
       /\ rw.result.raised = "no"
       /\ KeySet(rw.result.out) = {"announce", "creation date", "info"}
       /\ Len(rw.result.out.dict) = 3
       /\ Get(rw.result.out, "announce") = Announce
       /\ Get(rw.result.out, "creation date") = BInt(now)
       /\ IsDict(Get(rw.result.out, "info"))

\* C8 witness: a document with a comment and the source tracker's announce
\* URL was rewritten.
C8_Witness ==
    /\ Rewritten
    /\ HasKey(Bendecode(rw.content), "comment")
    /\ HasKey(Bendecode(rw.content), "announce")
    /\ Get(Bendecode(rw.content), "announce") # Announce

RECURSIVE Canonical(_)
Canonical(v) ==
    IF IsDict(v)
    THEN /\ \A i \in 1..(Len(v.dict) - 1) :
               KeyRank(v.dict[i][1]) < KeyRank(v.dict[i + 1][1])
         /\ \A i \in DOMAIN v.dict : Canonical(v.dict[i][2])
    ELSE IF IsList(v)
    THEN \A i \in DOMAIN v.list : Canonical(v.list[i])
    ELSE TRUE

\* C10: in the value the rewriter hands to the encoder, every dictionary (the
\* top-level one, the info dictionary, and every dictionary nested inside
\* info) has its keys in strictly ascending byte-wise order, whatever the
\* order of the keys of the input.
C10_EveryDictionaryCanonical ==
    Rewritten => Canonical(rw.result.out)

\* C11: ingestion skips what the store holds: after every command the store
\* holds at most one record for each source-tracker id; a search changes no
\* field of any record the store held before it (so none of a record whose id
\* is among the results); and every record a search creates is for an id of
\* its results, has status tracked, and is created only by a search.
C11_IngestSkipsExisting ==
    [][/\ \A i, j \in DOMAIN db' :
             db'[i].rutracker_id = db'[j].rutracker_id => i = j
       /\ Len(db') >= Len(db)
       /\ Len(db') > Len(db) => last'.op = "search"
       /\ last'.op = "search" =>
             /\ \A i \in DOMAIN db : db'[i] = db[i]
             /\ \A i \in DOMAIN db' \ DOMAIN db :
                   /\ db'[i].status = "tracked"
                   /\ db'[i].rutracker_id \in Range(last'.arg)
             /\ last'.committed =>
                   \A n \in DOMAIN last'.arg :
                      \E i \in DOMAIN db' : db'[i].rutracker_id = last'.arg[n]]_vars

\* C11 witness: a search whose results named a record the store held, which
\* an earlier refresh had moved off tracked, and a new id: the old record kept
\* its status and its timestamp, and the new one was created tracked.
C11_Witness ==
    /\ last.op = "search"
    /\ last.committed
    /\ \E i, j \in DOMAIN db :
          /\ db[i].rutracker_id \in Range(last.arg)
          /\ db[i].status # "tracked"
          /\ db[i].last_updated < now
          /\ db[j].rutracker_id \in Range(last.arg)
          /\ db[j].status = "tracked"
          /\ db[j].last_updated = now

\* C12: splitting the genre field "Folk, World, & Country" yields exactly one
\* tag, and that tag is the empty string.
C12_FolkWorldCountryIsOneEmptyTag ==
    (gp.pc = "done" /\ gp.field = FolkWorldCountry) => gp.result = << <<>> >>

\* C13: a record is published at most once: in every upload run, each record
\* the destination tracker reported success for is persisted as uploaded by
\* that run (also when the run aborts after the report), and a run that
\* selects its records by status publishes no record that was published
\* before.
C13_PublishedAtMostOnce ==
    [][last'.op = "upload" =>
          /\ \A i \in last'.posted : db'[i].status = "uploaded"
          /\ last'.arg = None =>
                \A i \in last'.posted : published[db[i].rutracker_id] = 0]_vars

\* C14: no record stays eligible once its torrent is in the download client:
\* after every download run that finishes, each record whose source torrent
\* the client holds (added by this run or by an earlier one that aborted, and
\* skipped by this run as already present) is persisted as downloaded.
C14_NoRecordStuckEligible ==
    (last.op = "download" /\ last.committed) =>
       \A i \in DOMAIN db :
          db[i].rutracker_id \in qbtSource => db[i].status = "downloaded"

====
